---------------------------- MODULE Spec2Model ----------------------------
(***************************************************************************)
(* gofind (src/cmd/gofind/main.go): a type-directed search over the four   *)
(* binding planes (Selections, Uses, Defs, Types) that go/types records    *)
(* for every initial package of a loaded program.                          *)
(*                                                                         *)
(* Strings are tuples of one-character strings, so that strings.Split,     *)
(* strings.Join and the byte-wise string comparison are computed, not      *)
(* assumed.                                                                *)
(***************************************************************************)
EXTENDS Integers, Sequences, FiniteSets, TLC

VARIABLES
    target,     \* flag.Arg(0)
    prog,       \* prog.InitialPackages(): the packages' indices in PackageUniverse
    pc,         \* position of the main goroutine
    paths,      \* strings.Split(target, "/")
    names,      \* strings.Split(paths[len(paths)-1], ".")
    pkgPath,
    objName,
    selName,
    pkgI,       \* index of pi in the loop over prog.InitialPackages()
    stage,      \* the statement of the loop body main is at
    tasks,      \* the scanner goroutines, one per package and plane
    wg,         \* sync.WaitGroup counter
    c,          \* the unbuffered channel c
    coll,       \* position of the collector goroutine
    res,        \* res.nodes
    results,    \* the display records
    ri,         \* index of the record being printed
    fileLines,  \* cache of the lines of the files read
    reads,      \* the ioutil.ReadFile calls made, in order
    output,     \* the lines printed
    m_typ,      \* fieldMatches called on its own: the typ argument
    m_sel,      \*   the sel argument
    m_ret,      \*   "none" before the call, then the BOOLEAN it returned
    narg,       \* flag.NArg()
    flagFullpath,   \* *flagFullpath (-p)
    flagSimple,     \* *flagSimple (-s)
    hasLocalPkg,
    s_filename, \* simplifyFilename called on its own: the filename argument
    s_ret,      \*   whether it was called, and the name it returned
    node        \* the collector's loop variable, received and yet to be appended

(***************************************************************************)
(* Bounds.                                                                 *)
(***************************************************************************)
\* Deepest pointer nesting of the types handed to fieldMatches.
MaxPtr == 2
\* Most path segments of the package path of a query.
MaxSegs == 2
\* Longest filename handed to simplifyFilename.
MaxName == 4

(***************************************************************************)
(* Strings.                                                                *)
(***************************************************************************)
\* The characters in use, in byte order.
Alphabet == <<".", "/", "F", "T", "a", "b", "c", "d", "e", "f", "g", "o",
              "p", "q", "z">>

Code(ch) == CHOOSE i \in 1..Len(Alphabet) : Alphabet[i] = ch

RECURSIVE StrLess(_, _)
\* a < b on Go strings: byte-wise lexicographic.
StrLess(a, b) ==
    IF b = <<>> THEN FALSE
    ELSE IF a = <<>> THEN TRUE
    ELSE IF Head(a) = Head(b) THEN StrLess(Tail(a), Tail(b))
    ELSE Code(Head(a)) < Code(Head(b))

\* Index of the first sep in s, 0 when there is none.
IndexOf(s, sep) ==
    IF \E i \in 1..Len(s) : s[i] = sep
    THEN CHOOSE i \in 1..Len(s) : s[i] = sep /\ \A j \in 1..(i-1) : s[j] # sep
    ELSE 0

RECURSIVE Split(_, _)
\* strings.Split(s, sep) for a one-character sep: always at least one part.
Split(s, sep) ==
    LET i == IndexOf(s, sep) IN
    IF i = 0 THEN <<s>>
    ELSE <<SubSeq(s, 1, i-1)>> \o Split(SubSeq(s, i+1, Len(s)), sep)

RECURSIVE Join(_, _)
\* strings.Join(parts, sep).
Join(parts, sep) ==
    IF Len(parts) = 0 THEN <<>>
    ELSE IF Len(parts) = 1 THEN parts[1]
    ELSE parts[1] \o <<sep>> \o Join(Tail(parts), sep)

(***************************************************************************)
(* go/types: packages, types, objects.                                     *)
(***************************************************************************)
NilPkg == [nil |-> TRUE, path |-> <<>>]
Pkg(path) == [nil |-> FALSE, path |-> path]

dp == <<"d", "/", "p">>
dq == <<"d", "/", "q">>

Struct(fields) == [kind |-> "Struct", fields |-> fields]
Basic(name) == [kind |-> "Basic", name |-> name]
Signature == [kind |-> "Signature"]
Pointer(elem) == [kind |-> "Pointer", elem |-> elem]
Slice(elem) == [kind |-> "Slice", elem |-> elem]
Named(pkg, name, under) ==
    [kind |-> "Named", pkg |-> pkg, name |-> name, under |-> under]

\* typ.Underlying()
Underlying(typ) == IF typ.kind = "Named" THEN typ.under ELSE typ

RECURSIVE PtrN(_, _)
\* k pointer indirections around typ.
PtrN(k, typ) == IF k = 0 THEN typ ELSE Pointer(PtrN(k-1, typ))

TInt == Basic(<<"i">>)
\* type T struct{ f, g int } of package d/p, a type of the same name in d/q,
\* and a named type of the universe scope (as error is).
TStruct == Struct(<< <<"f">>, <<"g">> >>)
TypT == Named(Pkg(dp), <<"T">>, TStruct)
TypQT == Named(Pkg(dq), <<"T">>, TStruct)
TypError == Named(NilPkg, <<"e">>, Basic(<<"e">>))

(***************************************************************************)
(* The query descriptor (main.go 103-122).                                 *)
(***************************************************************************)
ParsePaths(t) == Split(t, "/")
ParseNames(t) == LET ps == ParsePaths(t) IN Split(ps[Len(ps)], ".")
\* names[1] is evaluated whatever len(names) is.
ParseFails(t) == Len(ParseNames(t)) < 2
\* The package path taken from the last path segment alone.
ParsePkgPath_LastOnly(t) == ParseNames(t)[1]

ParsePkgPath(t) ==
    LET ps == ParsePaths(t) IN
    Join(Append(SubSeq(ps, 1, Len(ps)-1), ParseNames(t)[1]), "/")
ParseObjName(t) == ParseNames(t)[2]
ParseSelName(t) ==
    LET ns == ParseNames(t) IN IF Len(ns) > 2 THEN ns[3] ELSE <<>>

(***************************************************************************)
(* fieldMatches (main.go 158-182).                                         *)
(***************************************************************************)
RECURSIVE Deref(_)
\* for { if p, ok := typ.(*types.Pointer); ok { typ = p.Elem() } else { break } }
Deref(typ) == IF typ.kind = "Pointer" THEN Deref(typ.elem) ELSE typ

\* fieldMatches without the test of the declaring package.
fieldMatches_AnyPkg(typ, sel) ==
    IF sel # selName THEN FALSE
    ELSE LET tn == Deref(typ) IN
         IF tn.kind # "Named" THEN FALSE
         ELSE tn.name = objName

\* A mutant: one indirection stripped, not all.
fieldMatches_OneDeref(typ, sel) ==
    IF sel # selName THEN FALSE
    ELSE LET tn == IF typ.kind = "Pointer" THEN typ.elem ELSE typ IN
         IF tn.kind # "Named" THEN FALSE
         ELSE IF tn.pkg.nil THEN FALSE
         ELSE tn.pkg.path = pkgPath /\ tn.name = objName

fieldMatches(typ, sel) ==
    IF sel # selName THEN FALSE
    ELSE LET tn == Deref(typ) IN
         IF tn.kind # "Named" THEN FALSE
         ELSE IF tn.pkg.nil THEN FALSE
         ELSE tn.pkg.path = pkgPath /\ tn.name = objName

(***************************************************************************)
(* go/ast and go/token: a syntax node is its file, the byte offset of its  *)
(* Pos() and End()-Pos().  A file is the lengths of the lines that         *)
(* bytes.Split(b, "\n") gives.                                             *)
(***************************************************************************)
N(file, off, len) == [file |-> file, off |-> off, len |-> len]

\* The file of package d/p is named "a", "aa", "aaa", ... after the pointer
\* depth k of its variable x.
fA(k) == [i \in 1..(k+1) |-> "a"]
IsFA(file) == Len(file) >= 1 /\ \A i \in 1..Len(file) : file[i] = "a"
fB == <<"a", "b">>
fC == <<"b">>
fD == <<"b", "a">>
fE == <<"c">>
fO == <<"o">>
fZ == <<"z">>

FileLines(file) ==
    CASE IsFA(file) -> <<9, 25, 6 + Len(file), 15, 11, 0>>
      [] file = fB -> <<9, 12, 32, 0>>
      [] file = fC -> <<9, 12, 29, 0>>
      [] file = fD -> <<9, 12, 23, 17, 0>>
      [] file = fE -> <<9, 12, 24, 17, 22, 0>>
      [] file = fO -> <<9, 12, 11, 10, 0>>
      [] file = fZ -> <<9, 12, 14, 20, 0>>

RECURSIVE LineOf(_, _, _)
\* The 1-based line of byte offset off, lines being the line lengths from
\* line number ln on.
LineOf(lines, off, ln) ==
    IF Len(lines) <= 1 \/ off <= lines[1] THEN ln
    ELSE LineOf(Tail(lines), off - (lines[1] + 1), ln + 1)

RECURSIVE ColumnOf(_, _)
\* The 1-based column of byte offset off.
ColumnOf(lines, off) ==
    IF Len(lines) <= 1 \/ off <= lines[1] THEN off + 1
    ELSE ColumnOf(Tail(lines), off - (lines[1] + 1))

\* fset.Position(n.Pos())
Position(n) ==
    [Filename |-> n.file, Offset |-> n.off,
     Line |-> LineOf(FileLines(n.file), n.off, 1),
     Column |-> ColumnOf(FileLines(n.file), n.off)]

(***************************************************************************)
(* Objects and the entries of the four binding planes.                     *)
(***************************************************************************)
Obj(kind, pkg, name, type) ==
    [kind |-> kind, pkg |-> pkg, name |-> name, type |-> type]
NilObj == [kind |-> "nil", pkg |-> NilPkg, name |-> <<>>, type |-> Basic(<<>>)]

TypeNameT == Obj("TypeName", Pkg(dp), <<"T">>, TypT)
TypeNameInt == Obj("TypeName", NilPkg, <<"i">>, TInt)
FieldF == Obj("Var", Pkg(dp), <<"f">>, TInt)
FieldG == Obj("Var", Pkg(dp), <<"g">>, TInt)
\* func (T) T() {} and func F() {} of package d/p
MethodT == Obj("Func", Pkg(dp), <<"T">>, Signature)
FuncF == Obj("Func", Pkg(dp), <<"F">>, Signature)
PkgNameP(in) == Obj("PkgName", Pkg(in), <<"p">>, Basic(<<>>))
VarOf(in, name, type) == Obj("Var", Pkg(in), name, type)

SelEntry(sel, recv, obj) == [expr |-> [Sel |-> sel], recv |-> recv, obj |-> obj]
IdEntry(ident, obj) == [ident |-> ident, obj |-> obj]
KeyValueExpr(n, keyName, keyNode) ==
    [kind |-> "KeyValueExpr", node |-> n,
     Key |-> [kind |-> "Ident", Name |-> keyName, node |-> keyNode]]
Elt(kind, n) == [kind |-> kind, node |-> n, Key |-> [kind |-> "none"]]
TypeEntry(kind, n, elts, type) ==
    [expr |-> [kind |-> kind, node |-> n, Elts |-> elts], tv |-> [Type |-> type]]

(***************************************************************************)
(* The corpus: seven one-file packages, with the bindings go/types records *)
(* for them.                                                               *)
(***************************************************************************)
\* a:  package p
\*     type T struct{ f, g int }
\*     var x *T                      (k stars: var x T, var x *T, var x **T)
\*     func (T) T() {}
\*     func F() {}
PkgA(k) ==
    LET fa == fA(k) IN
    [path |-> dp, file |-> fa, Errors |-> 0,
     Selections |-> {},
     Uses |-> { IdEntry(N(fa, 30, 3), TypeNameInt),
                IdEntry(N(fa, 42 + k, 1), TypeNameT),
                IdEntry(N(fa, 50 + k, 1), TypeNameT) },
     Defs |-> { IdEntry(N(fa, 8, 1), NilObj),
                IdEntry(N(fa, 15, 1), TypeNameT),
                IdEntry(N(fa, 25, 1), FieldF),
                IdEntry(N(fa, 28, 1), FieldG),
                IdEntry(N(fa, 40, 1), VarOf(dp, <<"x">>, PtrN(k, TypT))),
                IdEntry(N(fa, 53 + k, 1), MethodT),
                IdEntry(N(fa, 65 + k, 1), FuncF) },
     Types |-> { TypeEntry(IF k = 0 THEN "Ident" ELSE "StarExpr",
                           N(fa, 42, k + 1), <<>>, PtrN(k, TypT)) }]

\* ab: package r
\*     import "d/p"
\*     func h(x p.T) int { return x.f }
PkgB ==
    LET in == <<"d", "/", "r">>
        x == VarOf(in, <<"x">>, TypT) IN
    [path |-> in, file |-> fB, Errors |-> 0,
     Selections |-> { SelEntry(N(fB, 52, 1), TypT, FieldF) },
     Uses |-> { IdEntry(N(fB, 32, 1), PkgNameP(in)),
                IdEntry(N(fB, 34, 1), TypeNameT),
                IdEntry(N(fB, 37, 3), TypeNameInt),
                IdEntry(N(fB, 50, 1), x),
                IdEntry(N(fB, 52, 1), FieldF) },
     Defs |-> { IdEntry(N(fB, 8, 1), NilObj),
                IdEntry(N(fB, 28, 1), Obj("Func", Pkg(in), <<"h">>, Signature)),
                IdEntry(N(fB, 30, 1), x) },
     Types |-> { TypeEntry("SelectorExpr", N(fB, 50, 3), <<>>, TInt) }]

\* b:  package s
\*     import "d/p"
\*     func k() { p.T{}.T(); p.F() }
PkgC ==
    LET in == <<"d", "/", "s">> IN
    [path |-> in, file |-> fC, Errors |-> 0,
     Selections |-> { SelEntry(N(fC, 40, 1), TypT, MethodT) },
     Uses |-> { IdEntry(N(fC, 34, 1), PkgNameP(in)),
                IdEntry(N(fC, 36, 1), TypeNameT),
                IdEntry(N(fC, 40, 1), MethodT),
                IdEntry(N(fC, 45, 1), PkgNameP(in)),
                IdEntry(N(fC, 47, 1), FuncF) },
     Defs |-> { IdEntry(N(fC, 8, 1), NilObj),
                IdEntry(N(fC, 28, 1), Obj("Func", Pkg(in), <<"k">>, Signature)) },
     Types |-> { TypeEntry("CompositeLit", N(fC, 34, 5), <<>>, TypT),
                 TypeEntry("CallExpr", N(fC, 45, 5), <<>>, Basic(<<>>)) }]

\* ba: package t
\*     import "d/p"
\*     var v = p.T{g: 2, f: 1}
\*     var w = p.T{1, 2}
PkgD ==
    LET in == <<"d", "/", "t">> IN
    [path |-> in, file |-> fD, Errors |-> 0,
     Selections |-> {},
     Uses |-> { IdEntry(N(fD, 31, 1), PkgNameP(in)),
                IdEntry(N(fD, 33, 1), TypeNameT),
                IdEntry(N(fD, 35, 1), FieldG),
                IdEntry(N(fD, 41, 1), FieldF),
                IdEntry(N(fD, 55, 1), PkgNameP(in)),
                IdEntry(N(fD, 57, 1), TypeNameT) },
     Defs |-> { IdEntry(N(fD, 8, 1), NilObj),
                IdEntry(N(fD, 27, 1), VarOf(in, <<"v">>, TypT)),
                IdEntry(N(fD, 51, 1), VarOf(in, <<"w">>, TypT)) },
     Types |-> { TypeEntry("CompositeLit", N(fD, 31, 15),
                           << KeyValueExpr(N(fD, 35, 4), <<"g">>, N(fD, 35, 1)),
                              KeyValueExpr(N(fD, 41, 4), <<"f">>, N(fD, 41, 1)) >>,
                           TypT),
                 TypeEntry("CompositeLit", N(fD, 55, 9),
                           << Elt("BasicLit", N(fD, 59, 1)),
                              Elt("BasicLit", N(fD, 62, 1)) >>,
                           TypT),
                 TypeEntry("BasicLit", N(fD, 59, 1), <<>>, TInt) }]

\* c:  package u
\*     import "d/p"
\*     var m = p.T{func() int {
\*     	return 1 }(), 2}
\*     var s = []*p.T{{1, 2}}
PkgE ==
    LET in == <<"d", "/", "u">> IN
    [path |-> in, file |-> fE, Errors |-> 0,
     Selections |-> {},
     Uses |-> { IdEntry(N(fE, 31, 1), PkgNameP(in)),
                IdEntry(N(fE, 33, 1), TypeNameT),
                IdEntry(N(fE, 42, 3), TypeNameInt),
                IdEntry(N(fE, 77, 1), PkgNameP(in)),
                IdEntry(N(fE, 79, 1), TypeNameT) },
     Defs |-> { IdEntry(N(fE, 8, 1), NilObj),
                IdEntry(N(fE, 27, 1), VarOf(in, <<"m">>, TypT)),
                IdEntry(N(fE, 70, 1), VarOf(in, <<"s">>, Slice(Pointer(TypT)))) },
     Types |-> { TypeEntry("CompositeLit", N(fE, 31, 34),
                           << Elt("CallExpr", N(fE, 35, 26)),
                              Elt("BasicLit", N(fE, 63, 1)) >>,
                           TypT),
                 TypeEntry("CompositeLit", N(fE, 74, 14),
                           << Elt("CompositeLit", N(fE, 81, 6)) >>,
                           Slice(Pointer(TypT))),
                 \* the elided literal {1, 2} has the element type, *p.T
                 TypeEntry("CompositeLit", N(fE, 81, 6),
                           << Elt("BasicLit", N(fE, 82, 1)),
                              Elt("BasicLit", N(fE, 85, 1)) >>,
                           Pointer(TypT)) }]

\* o:  package o
\*     import "d/q"
\*     var e error
\*     var k *q.T
PkgO ==
    LET in == <<"d", "/", "o">> IN
    [path |-> in, file |-> fO, Errors |-> 0,
     Selections |-> {},
     Uses |-> { IdEntry(N(fO, 29, 5), Obj("TypeName", NilPkg, <<"e">>, TypError)),
                IdEntry(N(fO, 42, 1), Obj("PkgName", Pkg(in), <<"q">>, Basic(<<>>))),
                IdEntry(N(fO, 44, 1), Obj("TypeName", Pkg(dq), <<"T">>, TypQT)) },
     Defs |-> { IdEntry(N(fO, 8, 1), NilObj),
                IdEntry(N(fO, 27, 1), VarOf(in, <<"e">>, TypError)),
                IdEntry(N(fO, 39, 1), VarOf(in, <<"k">>, Pointer(TypQT))) },
     Types |-> { TypeEntry("StarExpr", N(fO, 41, 4), <<>>, Pointer(TypQT)) }]

\* z:  package z
\*     import "d/p"
\*     var b = p.T{1}          (too few values in struct literal)
\*     var c = p.T{1, 2, 3}    (too many values in struct literal)
PkgZ ==
    LET in == <<"d", "/", "z">> IN
    [path |-> in, file |-> fZ, Errors |-> 2,
     Selections |-> {},
     Uses |-> { IdEntry(N(fZ, 31, 1), PkgNameP(in)),
                IdEntry(N(fZ, 33, 1), TypeNameT),
                IdEntry(N(fZ, 46, 1), PkgNameP(in)),
                IdEntry(N(fZ, 48, 1), TypeNameT) },
     Defs |-> { IdEntry(N(fZ, 8, 1), NilObj),
                IdEntry(N(fZ, 27, 1), VarOf(in, <<"b">>, TypT)),
                IdEntry(N(fZ, 42, 1), VarOf(in, <<"c">>, TypT)) },
     Types |-> { TypeEntry("CompositeLit", N(fZ, 31, 6),
                           << Elt("BasicLit", N(fZ, 35, 1)) >>, TypT),
                 TypeEntry("CompositeLit", N(fZ, 46, 12),
                           << Elt("BasicLit", N(fZ, 50, 1)),
                              Elt("BasicLit", N(fZ, 53, 1)),
                              Elt("BasicLit", N(fZ, 56, 1)) >>, TypT) }]

PackageUniverse ==
    [k \in 1..(MaxPtr + 1) |-> PkgA(k - 1)] \o <<PkgB, PkgC, PkgD, PkgE, PkgO, PkgZ>>

(***************************************************************************)
(* Inputs.                                                                 *)
(***************************************************************************)
QueryObjs == { <<"T">>, <<"F">> }
QuerySels == { <<"f">>, <<"T">> }
WellFormedTargets ==
    { dp \o <<".">> \o o : o \in QueryObjs }
    \cup { dp \o <<".">> \o o \o <<".">> \o s : o \in QueryObjs, s \in QuerySels }
\* "d/p" and "d": no '.' in the last path segment.
Targets == WellFormedTargets \cup { dp, <<"d">> }

RECURSIVE Ascending(_)
\* The members of a set of numbers, in increasing order.
Ascending(S) ==
    IF S = {} THEN <<>>
    ELSE LET m == CHOOSE x \in S : \A y \in S : x <= y
         IN <<m>> \o Ascending(S \ {m})

\* The programs: one or two packages of the universe, package d/p at most once.
Programs ==
    { Ascending(S) :
        S \in { X \in SUBSET (1..Len(PackageUniverse)) :
                  /\ Cardinality(X) \in {1, 2}
                  /\ Cardinality(X \cap (1..(MaxPtr + 1))) <= 1 } }

(***************************************************************************)
(* The scanners (main.go 223-341): what one iteration of each loop does    *)
(* with the entry it is given: "skip", "send" the node on c, or "panic".   *)
(***************************************************************************)
NoNode == N(<<>>, 0, 0)
Skip == [kind |-> "skip", node |-> NoNode]
Send(n) == [kind |-> "send", node |-> n]
Panic == [kind |-> "panic", node |-> NoNode]

\* main.go 227-241
SelOutcome(e) ==
    IF e.obj.kind = "Var" THEN
        IF fieldMatches(e.recv, e.obj.name) THEN Send(e.expr.Sel) ELSE Skip
    ELSE IF e.obj.kind = "Func" THEN
        IF fieldMatches(e.recv, e.obj.name) THEN Send(e.expr.Sel) ELSE Skip
    ELSE Panic

\* A Use scanner that does not skip the type names.
UseOutcome_TypeNamesToo(e) ==
    IF e.obj.kind = "Func"
       /\ ~e.obj.pkg.nil /\ e.obj.pkg.path = pkgPath /\ e.obj.name = objName
    THEN Send(e.ident)
    ELSE IF fieldMatches(e.obj.type, <<>>) THEN Send(e.ident)
    ELSE Skip

\* A Use scanner without the branch for functions and methods.
UseOutcome_NoBypass(e) ==
    IF e.obj.kind = "TypeName" THEN Skip
    ELSE IF fieldMatches(e.obj.type, <<>>) THEN Send(e.ident)
    ELSE Skip

\* main.go 257-273
UseOutcome(e) ==
    IF e.obj.kind = "TypeName" THEN Skip
    ELSE IF e.obj.kind = "Func"
            /\ ~e.obj.pkg.nil /\ e.obj.pkg.path = pkgPath /\ e.obj.name = objName
         THEN Send(e.ident)
    ELSE IF fieldMatches(e.obj.type, <<>>) THEN Send(e.ident)
    ELSE Skip

\* A Def scanner that sends nothing.
DefOutcome_Silent(e) == Skip

\* main.go 280-288
DefOutcome(e) ==
    IF e.obj.kind = "nil" THEN Skip
    ELSE IF fieldMatches(e.obj.type, <<>>) THEN Send(e.ident)
    ELSE Skip

\* A keyed walk that sends the first key, whatever its name.
KeyedWalk_FirstKey(elts, i) ==
    IF i > Len(elts) THEN Skip
    ELSE IF elts[i].kind # "KeyValueExpr" THEN Panic
    ELSE IF elts[i].Key.kind # "Ident" THEN Panic
    ELSE Send(elts[i].Key.node)

RECURSIVE KeyedWalk(_, _)
\* main.go 319-326: for _, elt := range comp.Elts, from element i on.
KeyedWalk(elts, i) ==
    IF i > Len(elts) THEN Skip
    ELSE IF elts[i].kind # "KeyValueExpr" THEN Panic   \* elt.(*ast.KeyValueExpr)
    ELSE IF elts[i].Key.kind # "Ident" THEN Panic      \* kv.Key.(*ast.Ident)
    ELSE IF elts[i].Key.Name = selName THEN Send(elts[i].Key.node)
    ELSE KeyedWalk(elts, i + 1)

\* A positional walk that sends the first element, whatever the field's place.
PositionalWalk_FirstElt(elts, st, i) ==
    IF i > Len(elts) THEN Skip
    ELSE IF i > Len(st.fields) THEN Panic
    ELSE Send(elts[1].node)

RECURSIVE PositionalWalk(_, _, _)
\* main.go 331-337: for i, elt := range comp.Elts, from element i on.
PositionalWalk(elts, st, i) ==
    IF i > Len(elts) THEN Skip
    ELSE IF i > Len(st.fields) THEN Panic              \* st.Field(i)
    ELSE IF st.fields[i] = selName THEN Send(elts[i].node)
    ELSE PositionalWalk(elts, st, i + 1)

\* main.go 302-339
LitOutcome(e) ==
    IF e.expr.kind # "CompositeLit" \/ Len(e.expr.Elts) = 0 THEN Skip
    ELSE IF ~fieldMatches(e.tv.Type, selName) THEN Skip
    ELSE LET st == Underlying(e.tv.Type) IN
         IF st.kind # "Struct" THEN Skip
         ELSE IF e.expr.Elts[1].kind = "KeyValueExpr"
              THEN KeyedWalk(e.expr.Elts, 1)
              ELSE PositionalWalk(e.expr.Elts, st, 1)

Planes == {"sel", "use", "def", "lit"}
Outcome(plane, e) ==
    CASE plane = "sel" -> SelOutcome(e)
      [] plane = "use" -> UseOutcome(e)
      [] plane = "def" -> DefOutcome(e)
      [] plane = "lit" -> LitOutcome(e)
\* pi.Selections / pi.Uses / pi.Defs / pi.Types
PlaneOf(pi, plane) ==
    CASE plane = "sel" -> pi.Selections
      [] plane = "use" -> pi.Uses
      [] plane = "def" -> pi.Defs
      [] plane = "lit" -> pi.Types
\* The key of a map entry (an ast.Node) is told by its byte offset.
KeyOf(plane, e) ==
    CASE plane = "sel" -> e.expr.Sel.off
      [] plane = "use" -> e.ident.off
      [] plane = "def" -> e.ident.off
      [] plane = "lit" -> e.expr.node.off
Keys(pi, plane) == { KeyOf(plane, e) : e \in PlaneOf(pi, plane) }
EntryAt(pi, plane, k) == CHOOSE e \in PlaneOf(pi, plane) : KeyOf(plane, e) = k

(***************************************************************************)
(* Sorting (main.go 51-68, 350).                                           *)
(***************************************************************************)
\* Less on the filenames alone.
Less_FilenameOnly(a, b) == StrLess(Position(a).Filename, Position(b).Filename)

\* Less on the offsets alone.
Less_OffsetOnly(a, b) == Position(a).Offset < Position(b).Offset

\* result.Less on two nodes
Less(a, b) ==
    LET p == Position(a)
        q == Position(b) IN
    IF p.Filename = q.Filename THEN p.Offset < q.Offset
    ELSE StrLess(p.Filename, q.Filename)

\* s with its i-th element removed.
RemoveAt(s, i) == SubSeq(s, 1, i-1) \o SubSeq(s, i+1, Len(s))

RECURSIVE SortOutcomes(_)
\* sort.Sort(res): every permutation of nodes in which no element is Less
\* than an earlier one (sort.Sort is not stable).
SortOutcomes(nodes) ==
    IF nodes = <<>> THEN { <<>> }
    ELSE UNION { { <<nodes[i]>> \o rest : rest \in SortOutcomes(RemoveAt(nodes, i)) } :
                 i \in { k \in 1..Len(nodes) :
                           \A j \in 1..Len(nodes) : ~Less(nodes[j], nodes[k]) } }

(***************************************************************************)
(* Grouping into display records (main.go 354-380).                        *)
(***************************************************************************)
\* highlight{p.Column - 1, p.Column - 1 + int(n.End()-n.Pos())}
Highlight(n) ==
    LET p == Position(n) IN
    [start |-> p.Column - 1, end |-> p.Column - 1 + n.len]

RECURSIVE GroupFrom_LineOnly(_, _, _)
\* The grouping loop comparing the lines alone, not the filenames.
GroupFrom_LineOnly(nodes, i, acc) ==
    IF i > Len(nodes) THEN acc
    ELSE LET p == Position(nodes[i])
             hl == Highlight(nodes[i])
             k == Len(acc) IN
         IF k > 0 /\ p.Line = acc[k].line
         THEN GroupFrom_LineOnly(nodes, i + 1,
                  [acc EXCEPT ![k].highlights = Append(@, hl)])
         ELSE GroupFrom_LineOnly(nodes, i + 1,
                  Append(acc, [filename |-> p.Filename, line |-> p.Line,
                               highlights |-> <<hl>>]))

RECURSIVE GroupFrom(_, _, _)
\* The loop from node i on; curr is the last record of acc.
GroupFrom(nodes, i, acc) ==
    IF i > Len(nodes) THEN acc
    ELSE LET p == Position(nodes[i])
             hl == Highlight(nodes[i])
             k == Len(acc) IN
         IF k > 0 /\ p.Filename = acc[k].filename /\ p.Line = acc[k].line
         THEN GroupFrom(nodes, i + 1,
                  [acc EXCEPT ![k].highlights = Append(@, hl)])
         ELSE GroupFrom(nodes, i + 1,
                  Append(acc, [filename |-> p.Filename, line |-> p.Line,
                               highlights |-> <<hl>>]))

GroupNodes(nodes) == GroupFrom(nodes, 1, <<>>)

(***************************************************************************)
(* Printing one record (main.go 395-406).  A printed text is the sequence  *)
(* of the byte ranges of the line it is made of, highlighted or not.       *)
(***************************************************************************)
RECURSIVE SliceFrom(_, _, _, _, _)
\* The loop over result.highlights from highlight i on, pos being the end of
\* the last one; a slice expression out of range panics.
SliceFrom(hls, i, pos, lineLen, acc) ==
    IF i > Len(hls) THEN
        IF pos > lineLen THEN [ok |-> FALSE, text |-> acc]
        ELSE [ok |-> TRUE,
              text |-> Append(acc, [hl |-> FALSE, from |-> pos, to |-> lineLen])]
    ELSE IF pos > hls[i].start \/ hls[i].start > hls[i].end
            \/ hls[i].end > lineLen
         THEN [ok |-> FALSE, text |-> acc]
    ELSE SliceFrom(hls, i + 1, hls[i].end, lineLen,
             acc \o << [hl |-> FALSE, from |-> pos, to |-> hls[i].start],
                       [hl |-> TRUE, from |-> hls[i].start, to |-> hls[i].end] >>)

\* lines being the lines of the record's file
PrintRecord(rec, lines) ==
    IF rec.line - 1 < 0 \/ rec.line - 1 >= Len(lines)
    THEN [ok |-> FALSE, text |-> <<>>]
    ELSE SliceFrom(rec.highlights, 1, 0, lines[rec.line], <<>>)

(***************************************************************************)
(* The displayed filename (main.go 410-433), with path/filepath on slash-   *)
(* separated paths without ".." components.                                *)
(***************************************************************************)
RECURSIVE StripSlashes(_)
\* path without its trailing slashes
StripSlashes(path) ==
    IF path # <<>> /\ path[Len(path)] = "/"
    THEN StripSlashes(SubSeq(path, 1, Len(path) - 1))
    ELSE path

\* Index of the last sep in s, 0 when there is none.
LastIndexOf(s, sep) ==
    IF \E i \in 1..Len(s) : s[i] = sep
    THEN CHOOSE i \in 1..Len(s) : s[i] = sep /\ \A j \in (i+1)..Len(s) : s[j] # sep
    ELSE 0

\* filepath.Base(path)
Base(path) ==
    IF path = <<>> THEN <<".">>
    ELSE LET p == StripSlashes(path)
             q == SubSeq(p, LastIndexOf(p, "/") + 1, Len(p)) IN
         IF q = <<>> THEN <<"/">> ELSE q

\* The components of a path: its non-empty parts other than ".".
Components(path) ==
    LET part(x) == x # <<>> /\ x # <<".">> IN SelectSeq(Split(path, "/"), part)
IsRooted(path) == path # <<>> /\ path[1] = "/"

\* filepath.Clean(path)
Clean(path) ==
    LET cs == Components(path) IN
    IF cs = <<>> THEN (IF IsRooted(path) THEN <<"/">> ELSE <<".">>)
    ELSE (IF IsRooted(path) THEN <<"/">> ELSE <<>>) \o Join(cs, "/")

RECURSIVE CommonPrefix(_, _)
\* The number of leading components two paths share.
CommonPrefix(bc, tc) ==
    IF bc = <<>> \/ tc = <<>> \/ Head(bc) # Head(tc) THEN 0
    ELSE 1 + CommonPrefix(Tail(bc), Tail(tc))

RECURSIVE Ups(_)
\* ".." once for each of n components: "..", "../..", ...
Ups(n) == IF n <= 1 THEN <<".", ".">> ELSE <<".", ".", "/">> \o Ups(n - 1)

\* filepath.Rel(basepath, targpath): [ok, path], path "" with an error.
Rel(basepath, targpath) ==
    LET base == Clean(basepath)
        targ == Clean(targpath)
        bc == Components(base)
        tc == Components(targ)
        n == CommonPrefix(bc, tc)
        rest == Join(SubSeq(tc, n + 1, Len(tc)), "/") IN
    IF targ = base THEN [ok |-> TRUE, path |-> <<".">>]
    ELSE IF IsRooted(base) # IsRooted(targ) THEN [ok |-> FALSE, path |-> <<>>]
    ELSE IF n < Len(bc) /\ bc[n + 1] = <<".", ".">>
         THEN [ok |-> FALSE, path |-> <<>>]
    ELSE IF n < Len(bc)
         THEN [ok |-> TRUE,
               path |-> Ups(Len(bc) - n)
                          \o (IF n < Len(tc) THEN <<"/">> \o rest ELSE <<>>)]
    ELSE [ok |-> TRUE, path |-> rest]

\* build.Default.SrcDirs() and os.Getwd()
SrcDirs == << <<"/", "a">> >>
Wd == <<"/", "b">>

RECURSIVE Shortest(_, _, _)
\* main.go 425-430: the loop over srcDirs
Shortest(dirs, filename, simple) ==
    IF dirs = <<>> THEN simple
    ELSE LET fn == Rel(Head(dirs), filename).path IN
         Shortest(Tail(dirs), filename,
                  IF fn # <<>> /\ Len(fn) < Len(simple) THEN fn ELSE simple)

\* simplifyFilename with -s tested before -p.
simplifyFilename_SimpleFirst(filename) ==
    IF flagSimple THEN Base(filename)
    ELSE IF flagFullpath THEN filename
    ELSE Shortest(IF hasLocalPkg THEN Append(SrcDirs, Wd) ELSE SrcDirs,
                  filename, filename)

\* simplifyFilename(filename)
simplifyFilename(filename) ==
    IF flagFullpath THEN filename
    ELSE IF flagSimple THEN Base(filename)
    ELSE Shortest(IF hasLocalPkg THEN Append(SrcDirs, Wd) ELSE SrcDirs,
                  filename, filename)

(***************************************************************************)
(* The state machine.                                                      *)
(***************************************************************************)
qvars == <<target, paths, names, pkgPath, objName, selName>>
mvars == <<m_typ, m_sel, m_ret>>
fvars == <<narg, flagFullpath, flagSimple, hasLocalPkg>>
svars == <<s_filename, s_ret>>
lvars == <<pkgI, stage>>
gvars == <<tasks, wg, c, coll, res>>
rvars == <<results, ri, fileLines, reads, output>>
vars == <<prog, pc, qvars, lvars, gvars, rvars, mvars, fvars, svars, node>>

TaskIds(pr) == (1..Len(pr)) \X Planes
Idle == [st |-> "none", todo |-> {}, node |-> NoNode]

NotCalled == [called |-> FALSE, name |-> <<>>]

\* The invocations: no argument, a query alone, or a query and the arguments
\* that load one of the programs; the pipeline is run with -p.
Init ==
    /\ \/ narg = 0 /\ target = <<>> /\ prog = <<>>
       \/ narg = 1 /\ target \in Targets /\ prog = <<>>
       \/ target \in Targets /\ prog \in Programs /\ narg = Len(prog) + 1
    /\ flagFullpath = TRUE /\ flagSimple = FALSE /\ hasLocalPkg = FALSE
    /\ s_filename = <<>> /\ s_ret = NotCalled
    /\ pc = "start"
    /\ paths = <<>> /\ names = <<>>
    /\ pkgPath = <<>> /\ objName = <<>> /\ selName = <<>>
    /\ pkgI = 0 /\ stage = "none"
    /\ tasks = [t \in TaskIds(prog) |-> Idle]
    /\ wg = 0
    /\ c = [closed |-> FALSE]
    /\ coll = "none"
    /\ res = <<>>
    /\ node = NoNode
    /\ results = <<>> /\ ri = 0
    /\ fileLines = <<>> /\ reads = <<>> /\ output = <<>>
    /\ m_typ = TInt /\ m_sel = <<>> /\ m_ret = "none"

\* main without the test of flag.NArg().
Start_NoCheck ==
    /\ pc = "start"
    /\ pc' = "parse"
    /\ UNCHANGED <<prog, qvars, lvars, gvars, rvars, mvars, fvars, svars, node>>

\* main.go 96-101: flag.Usage() and os.Exit(2) with fewer than two arguments.
Start ==
    /\ pc = "start"
    /\ pc' = IF narg < 2 THEN "exit2" ELSE "parse"
    /\ UNCHANGED <<prog, qvars, lvars, gvars, rvars, mvars, fvars, svars, node>>

\* main.go 103-198: the descriptor is parsed, the program loaded, the channels
\* made and the collector started; names[1] panics on a one-element names.
Parse ==
    /\ pc = "parse"
    /\ paths' = ParsePaths(target)
    /\ names' = ParseNames(target)
    /\ IF ParseFails(target)
       THEN /\ pc' = "panic"
            /\ UNCHANGED <<pkgPath, objName, selName, lvars, coll>>
       ELSE /\ pkgPath' = ParsePkgPath(target)
            /\ objName' = ParseObjName(target)
            /\ selName' = ParseSelName(target)
            /\ pc' = "range"
            /\ pkgI' = 1 /\ stage' = "errors"
            /\ coll' = "range"
    /\ UNCHANGED <<target, prog, tasks, wg, c, res, rvars, mvars, fvars, svars, node>>

\* No package is taken to have errors.
HasErrors_Never(pi) == FALSE

\* main.go 201-211: the next package, skipped when it has errors
\* (a package with errors is skipped: len(pi.Errors) != 0).
HasErrors(pi) == pi.Errors # 0
\* pi of the k-th iteration
Pi(k) == PackageUniverse[prog[k]]

\* The loop over the packages without the test of pi.Errors.
NextPackage_NoSkip ==
    /\ pc = "range" /\ stage = "errors" /\ pkgI <= Len(prog)
    /\ pkgI' = pkgI /\ stage' = "sel"
    /\ UNCHANGED <<prog, pc, qvars, gvars, rvars, mvars, fvars, svars, node>>

NextPackage ==
    /\ pc = "range" /\ stage = "errors" /\ pkgI <= Len(prog)
    /\ IF HasErrors(Pi(pkgI))
       THEN pkgI' = pkgI + 1 /\ stage' = "errors"
       ELSE pkgI' = pkgI /\ stage' = "sel"
    /\ UNCHANGED <<prog, pc, qvars, gvars, rvars, mvars, fvars, svars, node>>

\* wg.Add(1); go func(pi) {...}(pi) for one plane; next is the statement after
Launch(plane, next) ==
    /\ pc = "range" /\ stage = plane
    /\ wg' = wg + 1
    /\ tasks' = [tasks EXCEPT ![<<pkgI, plane>>] =
                    [st |-> "run", todo |-> Keys(Pi(pkgI), plane),
                     node |-> NoNode]]
    /\ IF next = "errors"
       THEN pkgI' = pkgI + 1 /\ stage' = "errors"
       ELSE pkgI' = pkgI /\ stage' = next
    /\ UNCHANGED <<prog, pc, qvars, c, coll, res, rvars, mvars, fvars, svars, node>>

\* main.go 223-242
LaunchSel == Launch("sel", "use")
\* main.go 253-274
LaunchUse == Launch("use", "def")
\* The loop body without the test of selName before the fourth scanner.
LaunchDef_AlwaysLit == Launch("def", "lit")

\* main.go 276-289, and the test of main.go 296
LaunchDef == Launch("def", IF selName # <<>> THEN "lit" ELSE "errors")
\* main.go 297-340
LaunchLit == Launch("lit", "errors")

\* The end of the loop over the packages.
RangeEnd ==
    /\ pc = "range" /\ stage = "errors" /\ pkgI > Len(prog)
    /\ pc' = "wait"
    /\ UNCHANGED <<prog, qvars, lvars, gvars, rvars, mvars, fvars, svars, node>>

Running == pc \notin {"panic", "exit", "exit2"}

\* A scanner goroutine runs its loop up to its next send on c, or to its end
\* (defer wg.Done()): the iterations that send nothing change no state.
Scan(t) ==
    /\ Running
    /\ tasks[t].st = "run"
    /\ LET out(k) == Outcome(t[2], EntryAt(Pi(t[1]), t[2], k))
           live == { k \in tasks[t].todo : out(k).kind # "skip" } IN
       IF live = {}
       THEN /\ tasks' = [tasks EXCEPT ![t] = [st |-> "done", todo |-> {},
                                               node |-> NoNode]]
            /\ wg' = wg - 1
            /\ pc' = pc
       ELSE \E e \in live :
            IF out(e).kind = "panic" \/ c.closed
            THEN pc' = "panic" /\ UNCHANGED <<tasks, wg>>
            ELSE /\ tasks' = [tasks EXCEPT ![t] =
                                [st |-> "send", todo |-> tasks[t].todo \ {e},
                                 node |-> out(e).node]]
                 /\ UNCHANGED <<wg, pc>>
    /\ UNCHANGED <<prog, qvars, lvars, c, coll, res, rvars, mvars, fvars, svars, node>>

\* A collector that drops a node it already holds.
CollectorRecv_Dedup(t) ==
    /\ Running
    /\ coll = "range"
    /\ tasks[t].st = "send"
    /\ res' = IF \E i \in 1..Len(res) : res[i] = tasks[t].node
              THEN res ELSE Append(res, tasks[t].node)
    /\ tasks' = [tasks EXCEPT ![t].st = "run", ![t].node = NoNode]
    /\ UNCHANGED <<prog, pc, qvars, lvars, wg, c, coll, rvars, mvars, fvars, svars, node>>

\* main.go 192-194: the collector receives from a scanner blocked in c <- node
\* and appends.
CollectorRecv(t) ==
    /\ Running
    /\ coll = "range"
    /\ tasks[t].st = "send"
    /\ res' = Append(res, tasks[t].node)
    /\ tasks' = [tasks EXCEPT ![t].st = "run", ![t].node = NoNode]
    /\ UNCHANGED <<prog, pc, qvars, lvars, wg, c, coll, rvars, mvars, fvars, svars, node>>

\* main.go 192, 195: the range over c ends once c is closed; done <- struct{}{}
CollectorEnd ==
    /\ Running
    /\ coll = "range"
    /\ c.closed
    /\ coll' = "done"
    /\ UNCHANGED <<prog, pc, qvars, lvars, tasks, wg, c, res, rvars, mvars, fvars, svars, node>>

\* main without wg.Wait().
Wait_NoBarrier ==
    /\ pc = "wait"
    /\ pc' = "close"
    /\ UNCHANGED <<prog, qvars, lvars, gvars, rvars, mvars, fvars, svars, node>>

\* main.go 344
Wait ==
    /\ pc = "wait"
    /\ wg = 0
    /\ pc' = "close"
    /\ UNCHANGED <<prog, qvars, lvars, gvars, rvars, mvars, fvars, svars, node>>

\* main without close(c).
Close_Forgotten ==
    /\ pc = "close"
    /\ pc' = "recvdone"
    /\ UNCHANGED <<prog, qvars, lvars, gvars, rvars, mvars, fvars, svars, node>>

\* main.go 346
Close ==
    /\ pc = "close"
    /\ c' = [closed |-> TRUE]
    /\ pc' = "recvdone"
    /\ UNCHANGED <<prog, qvars, lvars, tasks, wg, coll, res, rvars, mvars, fvars, svars, node>>

\* main without <-done.
RecvDone_NoWait ==
    /\ pc = "recvdone"
    /\ pc' = "sort"
    /\ UNCHANGED <<prog, qvars, lvars, gvars, rvars, mvars, fvars, svars, node>>

\* main.go 348: <-done, with the collector blocked in done <- struct{}{}
RecvDone ==
    /\ pc = "recvdone"
    /\ coll = "done"
    /\ coll' = "exit"
    /\ pc' = "sort"
    /\ UNCHANGED <<prog, qvars, lvars, tasks, wg, c, res, rvars, mvars, fvars, svars, node>>

\* main.go 350
Sort ==
    /\ pc = "sort"
    /\ res' \in SortOutcomes(res)
    /\ pc' = "group"
    /\ UNCHANGED <<prog, qvars, lvars, tasks, wg, c, coll, rvars, mvars, fvars, svars, node>>

\* main.go 363-380
Group ==
    /\ pc = "group"
    /\ results' = GroupNodes(res)
    /\ ri' = 1
    /\ pc' = "print"
    /\ UNCHANGED <<prog, qvars, lvars, gvars, fileLines, reads, output, mvars, fvars, svars, node>>

\* main.go 383-407: one iteration of the loop over results; the file is read
\* when the cache has no lines for it.
IsCached(filename) ==
    \E k \in 1..Len(fileLines) : fileLines[k].filename = filename
CachedLines(filename) ==
    (CHOOSE e \in { fileLines[k] : k \in 1..Len(fileLines) } :
        e.filename = filename).lines

\* The printing loop without the cache: the file is read for every record.
PrintOne_NoCache ==
    /\ pc = "print" /\ ri <= Len(results)
    /\ LET rec == results[ri]
           lines == FileLines(rec.filename)
           out == PrintRecord(rec, lines) IN
       /\ reads' = Append(reads, rec.filename)
       /\ fileLines' = Append(fileLines, [filename |-> rec.filename,
                                          lines |-> lines])
       /\ IF out.ok
          THEN /\ output' = Append(output,
                               [file |-> simplifyFilename(rec.filename),
                                line |-> rec.line,
                                text |-> out.text])
               /\ ri' = ri + 1
               /\ pc' = pc
          ELSE pc' = "panic" /\ UNCHANGED <<output, ri>>
    /\ UNCHANGED <<prog, qvars, lvars, gvars, results, mvars, fvars, svars, node>>

PrintOne ==
    /\ pc = "print" /\ ri <= Len(results)
    /\ LET rec == results[ri]
           hit == IsCached(rec.filename)
           lines == IF hit THEN CachedLines(rec.filename)
                    ELSE FileLines(rec.filename)
           out == PrintRecord(rec, lines) IN
       /\ reads' = IF hit THEN reads ELSE Append(reads, rec.filename)
       /\ fileLines' = IF hit THEN fileLines
                       ELSE Append(fileLines, [filename |-> rec.filename,
                                               lines |-> lines])
       /\ IF out.ok
          THEN /\ output' = Append(output,
                               [file |-> simplifyFilename(rec.filename),
                                line |-> rec.line,
                                text |-> out.text])
               /\ ri' = ri + 1
               /\ pc' = pc
          ELSE pc' = "panic" /\ UNCHANGED <<output, ri>>
    /\ UNCHANGED <<prog, qvars, lvars, gvars, results, mvars, fvars, svars, node>>

\* main.go 408: main returns
Exit ==
    /\ pc = "print" /\ ri > Len(results)
    /\ pc' = "exit"
    /\ UNCHANGED <<prog, qvars, lvars, gvars, rvars, mvars, fvars, svars, node>>

Next ==
    \/ Start
    \/ Parse
    \/ NextPackage
    \/ LaunchSel
    \/ LaunchUse
    \/ LaunchDef
    \/ LaunchLit
    \/ RangeEnd
    \/ \E t \in TaskIds(prog) : Scan(t)
    \/ \E t \in TaskIds(prog) : CollectorRecv(t)
    \/ CollectorEnd
    \/ Wait
    \/ Close
    \/ RecvDone
    \/ Sort
    \/ Group
    \/ PrintOne
    \/ Exit

Spec == Init /\ [][Next]_vars

(***************************************************************************)
(* The accesses to res.nodes.  The collector's loop body (main.go 192-194)  *)
(* in its two steps, the receive from c and the append to res.nodes, which *)
(* CollectorRecv takes at once; any goroutine may run between the two.     *)
(***************************************************************************)
\* main.go 192: node is received from a scanner blocked in c <- node
CollectorTake(t) ==
    /\ Running
    /\ coll = "range"
    /\ tasks[t].st = "send"
    /\ node' = tasks[t].node
    /\ coll' = "append"
    /\ tasks' = [tasks EXCEPT ![t].st = "run", ![t].node = NoNode]
    /\ UNCHANGED <<prog, pc, qvars, lvars, wg, c, res, rvars, mvars, fvars, svars>>

\* main.go 193: res.nodes = append(res.nodes, node)
CollectorAppend ==
    /\ Running
    /\ coll = "append"
    /\ res' = Append(res, node)
    /\ node' = NoNode
    /\ coll' = "range"
    /\ UNCHANGED <<prog, pc, qvars, lvars, tasks, wg, c, rvars, mvars, fvars, svars>>

NextRace ==
    \/ Start
    \/ Parse
    \/ NextPackage
    \/ LaunchSel
    \/ LaunchUse
    \/ LaunchDef
    \/ LaunchLit
    \/ RangeEnd
    \/ \E t \in TaskIds(prog) : Scan(t)
    \/ \E t \in TaskIds(prog) : CollectorTake(t)
    \/ CollectorAppend
    \/ CollectorEnd
    \/ Wait
    \/ Close
    \/ RecvDone
    \/ Sort
    \/ Group
    \/ PrintOne
    \/ Exit

\* The queries of these runs: no argument at all, an empty selector, a
\* selector found in selections and literals, a selector found nowhere.
RaceTargets ==
    { <<>>,
      dp \o <<".", "F">>,
      dp \o <<".", "T", ".", "f">>,
      dp \o <<".", "F", ".", "f">> }
InitRace == Init /\ target \in RaceTargets

RaceSpec == InitRace /\ [][NextRace]_vars

(***************************************************************************)
(* fieldMatches on its own: any type, any selector, any well-formed query. *)
(***************************************************************************)
NamedTypes ==
    { Named(pk, nm, un) :
        pk \in { Pkg(dp), Pkg(dq), NilPkg },
        nm \in { <<"T">>, <<"F">>, <<"e">> },
        un \in { TStruct, Basic(<<"e">>) } }
BaseTypes ==
    NamedTypes \cup { TInt, Signature, TStruct, Slice(Pointer(TypT)), Basic(<<>>) }
TypeUniverse == { PtrN(k, b) : k \in 0..MaxPtr, b \in BaseTypes }
SelUniverse == { <<>>, <<"f">>, <<"g">>, <<"T">> }

InitMatch ==
    /\ target \in WellFormedTargets
    /\ prog = <<>>
    /\ pc = "fieldMatches"
    /\ paths = ParsePaths(target) /\ names = ParseNames(target)
    /\ pkgPath = ParsePkgPath(target)
    /\ objName = ParseObjName(target)
    /\ selName = ParseSelName(target)
    /\ pkgI = 0 /\ stage = "none"
    /\ tasks = <<>>
    /\ wg = 0
    /\ c = [closed |-> FALSE]
    /\ coll = "none"
    /\ res = <<>>
    /\ node = NoNode
    /\ results = <<>> /\ ri = 0
    /\ fileLines = <<>> /\ reads = <<>> /\ output = <<>>
    /\ m_typ \in TypeUniverse
    /\ m_sel \in SelUniverse
    /\ m_ret = "none"
    /\ narg = 2
    /\ flagFullpath = TRUE /\ flagSimple = FALSE /\ hasLocalPkg = FALSE
    /\ s_filename = <<>> /\ s_ret = NotCalled

\* One call of fieldMatches(m_typ, m_sel).
MatchCall ==
    /\ m_ret = "none"
    /\ m_ret' = IF fieldMatches(m_typ, m_sel) THEN "true" ELSE "false"
    /\ UNCHANGED <<prog, pc, qvars, lvars, gvars, rvars, m_typ, m_sel, fvars, svars, node>>

NextMatch == MatchCall

SpecMatch == InitMatch /\ [][NextMatch]_vars

(***************************************************************************)
(* Properties.                                                             *)
(***************************************************************************)
\* typ is k pointer indirections (k >= 0) around the named type objName of
\* the package with import path pkgPath.
IsTargetType(typ) ==
    \E k \in 0..(MaxPtr + 1) : \E b \in BaseTypes :
        /\ typ = PtrN(k, b)
        /\ b.kind = "Named"
        /\ ~b.pkg.nil
        /\ b.pkg.path = pkgPath
        /\ b.name = objName

\* C1: fieldMatches(t, s) is true exactly when s equals selName and t, with
\* every leading pointer indirection stripped, is a named type with a
\* declaring package whose path is pkgPath and whose name is objName.
C1_TypeMatcher ==
    m_ret # "none" =>
        (m_ret = "true" <=> (m_sel = selName /\ IsTargetType(m_typ)))

\* fieldMatches returned true for a pointer to a pointer.
C1_Witness ==
    /\ m_ret = "true"
    /\ m_typ.kind = "Pointer"
    /\ m_typ.elem.kind = "Pointer"

(***************************************************************************)
(* The pipeline: what is reported for a program and a query.               *)
(***************************************************************************)
Parsed ==
    \/ pc \notin {"start", "exit2", "parse", "panic"}
    \/ (pc = "panic" /\ ~ParseFails(target))
\* A scanner goroutine panicked (not the parsing, not the printing).
ScanPanic == pc = "panic" /\ ~ParseFails(target) /\ ri = 0
Collected == pc \in {"sort", "group", "print", "exit"}
Sorted == pc \in {"group", "print", "exit"}
Grouped == ri > 0

\* The nodes the scanners of package pi send, plane after plane, key after key.
PlaneNodes(pi, plane) ==
    LET ks == Ascending({ k \in Keys(pi, plane) :
                  Outcome(plane, EntryAt(pi, plane, k)).kind = "send" })
    IN [i \in 1..Len(ks) |-> Outcome(plane, EntryAt(pi, plane, ks[i])).node]
PackageNodes(pi) ==
    PlaneNodes(pi, "sel") \o PlaneNodes(pi, "use") \o PlaneNodes(pi, "def")
        \o (IF selName # <<>> THEN PlaneNodes(pi, "lit") ELSE <<>>)
RECURSIVE ProgramNodes(_)
\* ... of every package of the program pr, none skipped.
ProgramNodes(pr) ==
    IF pr = <<>> THEN <<>>
    ELSE PackageNodes(PackageUniverse[Head(pr)]) \o ProgramNodes(Tail(pr))
\* The program without its packages with errors.
SoundPackages ==
    LET sound(k) == PackageUniverse[k].Errors = 0 IN SelectSeq(prog, sound)
Count(s, n) == Cardinality({ i \in 1..Len(s) : s[i] = n })
Files(s) == { s[i].file : i \in 1..Len(s) }

\* n is an identifier use bound to the function or method objName of pkgPath.
IsCallableUse(n) ==
    \E k \in 1..Len(prog) : \E e \in Pi(k).Uses :
        /\ e.ident = n
        /\ e.obj.kind = "Func"
        /\ ~e.obj.pkg.nil /\ e.obj.pkg.path = pkgPath
        /\ e.obj.name = objName
\* n is an identifier, used or defined, bound to an object of the target type.
IsTypedIdent(n) ==
    \E k \in 1..Len(prog) : \E e \in Pi(k).Uses \cup Pi(k).Defs :
        /\ e.ident = n
        /\ e.obj.kind # "nil"
        /\ IsTargetType(e.obj.type)

\* C2: with an empty selector, every reported node is bound to an object whose
\* type, pointers stripped, is the named type objName of package pkgPath.
C2_EmptySelectorTyped ==
    (Parsed /\ selName = <<>>) =>
        \A i \in 1..Len(res) : IsTypedIdent(res[i])

\* C2, amended: with an empty selector, every reported node is bound to an
\* object whose type, pointers stripped, is the named type objName of package
\* pkgPath, or is a use of the function or method objName of package pkgPath.
C2_EmptySelectorTypedOrCallable ==
    (Parsed /\ selName = <<>>) =>
        \A i \in 1..Len(res) : IsTypedIdent(res[i]) \/ IsCallableUse(res[i])

\* A finished run with an empty selector that reported a typed identifier and
\* a use of a callable.
C2_Witness ==
    /\ pc = "exit" /\ selName = <<>>
    /\ \E i \in 1..Len(res) : IsTypedIdent(res[i])
    /\ \E i \in 1..Len(res) : IsCallableUse(res[i]) /\ ~IsTypedIdent(res[i])

\* n is the selector of a selection of a member selName on the target type.
IsMemberSelection(n) ==
    \E k \in 1..Len(prog) : \E e \in Pi(k).Selections :
        /\ e.expr.Sel = n
        /\ e.obj.name = selName
        /\ IsTargetType(e.recv)
\* n is the key selName, or the value at the position of the field selName,
\* of a composite literal of the target type.
IsMemberOfLiteral(n) ==
    \E k \in 1..Len(prog) : \E e \in Pi(k).Types :
        /\ e.expr.kind = "CompositeLit"
        /\ IsTargetType(e.tv.Type)
        /\ \E i \in 1..Len(e.expr.Elts) :
             LET elt == e.expr.Elts[i]
                 st == Underlying(e.tv.Type) IN
             IF elt.kind = "KeyValueExpr"
             THEN elt.Key.kind = "Ident" /\ elt.Key.Name = selName
                  /\ elt.Key.node = n
             ELSE st.kind = "Struct" /\ i <= Len(st.fields)
                  /\ st.fields[i] = selName /\ elt.node = n

\* C3: with a non-empty selector, every reported node is an occurrence of the
\* field or method selName of the type objName of package pkgPath: the
\* selector of a selection, a key of a composite literal or the value at the
\* field's position in one.
C3_SelectorMembersOnly ==
    (Parsed /\ selName # <<>>) =>
        \A i \in 1..Len(res) :
            IsMemberSelection(res[i]) \/ IsMemberOfLiteral(res[i])

\* Node n is highlighted in a printed line of its file.
Printed(n) ==
    \E j \in 1..Len(output) :
        /\ output[j].file = n.file
        /\ output[j].line = Position(n).Line
        /\ \E u \in 1..Len(output[j].text) :
             /\ output[j].text[u].hl
             /\ output[j].text[u].from = Position(n).Column - 1
             /\ output[j].text[u].to = Position(n).Column - 1 + n.len
Reported(n) == (\E i \in 1..Len(res) : res[i] = n) /\ Printed(n)

MatchingSelections(pi) ==
    { e \in pi.Selections : e.obj.name = selName /\ IsTargetType(e.recv) }
MatchingUses(pi) ==
    { e \in pi.Uses : /\ e.obj.kind # "TypeName"
                      /\ selName = <<>>
                      /\ IsTargetType(e.obj.type) }
MatchingDefs(pi) ==
    { e \in pi.Defs : /\ e.obj.kind # "nil"
                      /\ selName = <<>>
                      /\ IsTargetType(e.obj.type) }

\* C4: when the run has completed, for every package without errors every
\* selection of a member selName on the target type, every use that is not a
\* type name and every definition with a non-nil object whose object has the
\* target type (empty selector) is among the reported nodes and highlighted in
\* the output.
C4_Complete ==
    pc = "exit" =>
        \A k \in 1..Len(prog) :
            Pi(k).Errors = 0 =>
                /\ \A e \in MatchingSelections(Pi(k)) : Reported(e.expr.Sel)
                /\ \A e \in MatchingUses(Pi(k)) : Reported(e.ident)
                /\ \A e \in MatchingDefs(Pi(k)) : Reported(e.ident)

\* A completed run over two packages that each have a matching definition,
\* one of them a matching use as well.
C4_Witness ==
    /\ pc = "exit"
    /\ Len(prog) = 2
    /\ \A k \in 1..Len(prog) : MatchingDefs(Pi(k)) # {}
    /\ \E k \in 1..Len(prog) : MatchingUses(Pi(k)) # {}

\* C5: the sorted list of matches is a function of the program and the query
\* alone: whatever the interleaving of the scanners, it is the one ordering
\* that sort.Sort can give to the nodes the scanners send.
C5_Deterministic ==
    Sorted => SortOutcomes(ProgramNodes(SoundPackages)) = {res}

\* A completed run in which the scanners of two packages sent nodes.
C5_Witness ==
    /\ pc = "exit"
    /\ Len(res) >= 3
    /\ Cardinality(Files(res)) = 2

\* C6: after the sort, a match in a file of smaller name precedes one in a
\* file of greater name, and within a file a match of smaller offset precedes
\* one of greater offset.
C6_SortOrder ==
    Sorted =>
        \A i, j \in 1..Len(res) :
            /\ StrLess(res[i].file, res[j].file) => i < j
            /\ (res[i].file = res[j].file /\ res[i].off < res[j].off) => i < j

\* A sorted list with matches in two files, two of them in one file.
C6_Witness ==
    /\ pc = "group"
    /\ Cardinality(Files(res)) = 2
    /\ \E i, j \in 1..Len(res) :
         res[i].file = res[j].file /\ res[i].off < res[j].off

\* The matches on line ln of file f.
MatchesOn(f, ln) ==
    { i \in 1..Len(res) : res[i].file = f /\ Position(res[i]).Line = ln }

\* C7: the display records group the matches by filename and line: no two
\* records have the same filename and line, a record holds exactly one span
\* for each match on its line and none else, and its spans are in column
\* order, left to right.
C7_Grouping ==
    Grouped =>
        /\ \A a, b \in 1..Len(results) :
             (results[a].filename = results[b].filename
                /\ results[a].line = results[b].line) => a = b
        /\ \A a \in 1..Len(results) :
             LET r == results[a]
                 on == MatchesOn(r.filename, r.line) IN
             /\ Len(r.highlights) = Cardinality(on)
             /\ \A i \in on :
                  \E u \in 1..Len(r.highlights) : r.highlights[u] = Highlight(res[i])
             /\ \A u, v \in 1..Len(r.highlights) :
                  u < v => r.highlights[u].start <= r.highlights[v].start
        /\ \A i \in 1..Len(res) :
             \E a \in 1..Len(results) :
                 /\ results[a].filename = res[i].file
                 /\ results[a].line = Position(res[i]).Line

\* Two records, one of them with two spans that do not overlap.
C7_Witness ==
    /\ Grouped
    /\ Len(results) >= 2
    /\ \E a \in 1..Len(results) :
         /\ Len(results[a].highlights) = 2
         /\ results[a].highlights[1].end <= results[a].highlights[2].start

\* The positional struct literals of the target type in package pi whose number
\* of elements is not the number of fields of the struct.
MiscountedLiterals(pi) ==
    { e \in pi.Types :
        /\ e.expr.kind = "CompositeLit"
        /\ Len(e.expr.Elts) > 0
        /\ e.expr.Elts[1].kind # "KeyValueExpr"
        /\ IsTargetType(e.tv.Type)
        /\ Underlying(e.tv.Type).kind = "Struct"
        /\ Len(e.expr.Elts) # Len(Underlying(e.tv.Type).fields) }

\* C8: no element of a positional struct literal of the target type whose
\* number of elements differs from the number of fields is ever reported, and
\* no scanner panics on one.
C8_PositionalCount ==
    /\ ~ScanPanic
    /\ \A k \in 1..Len(prog) : \A e \in MiscountedLiterals(Pi(k)) :
         \A i \in 1..Len(e.expr.Elts) : \A j \in 1..Len(res) :
             res[j] # e.expr.Elts[i].node

\* A completed run with selector f over a program with such a literal, with
\* matches reported from the rest of the program.
C8_Witness ==
    /\ pc = "exit"
    /\ selName = <<"f">>
    /\ \E k \in 1..Len(prog) : MiscountedLiterals(Pi(k)) # {}
    /\ Len(res) > 0

\* C9: a package with errors has no scanner launched and no node of its file
\* reported; no scanner panics; and once collected the matches are, node for
\* node, those of the program without its packages with errors.
C9_FailureIsolation ==
    /\ \A k \in 1..Len(prog) :
         Pi(k).Errors # 0 =>
            /\ \A plane \in Planes : tasks[<<k, plane>>].st = "none"
            /\ \A j \in 1..Len(res) : res[j].file # Pi(k).file
    /\ ~ScanPanic
    /\ Collected =>
         \A n \in { res[j] : j \in 1..Len(res) }
                \cup { ProgramNodes(SoundPackages)[j] :
                         j \in 1..Len(ProgramNodes(SoundPackages)) } :
             Count(res, n) = Count(ProgramNodes(SoundPackages), n)

\* A completed run over a package with errors and a package without, with
\* matches reported.
C9_Witness ==
    /\ pc = "exit"
    /\ \E k \in 1..Len(prog) : Pi(k).Errors # 0
    /\ \E k \in 1..Len(prog) : Pi(k).Errors = 0
    /\ Len(res) > 0

\* C10: a query whose part after the last "/" has no "." is not fatal: the
\* program does not panic on it, and reports nothing.
C10_MalformedQueryHarmless ==
    ParseFails(target) => (pc # "panic" /\ res = <<>> /\ output = <<>>)

(***************************************************************************)
(* The query parsing on its own: queries written from a package path, an   *)
(* object name and an optional selector.                                   *)
(***************************************************************************)
PathSegs == { <<"d">>, <<"p">>, <<"d", ".", "p">> }
PkgPaths ==
    { Join(ss, "/") : ss \in UNION { [1..n -> PathSegs] : n \in 1..MaxSegs } }
\* "p.o" or "p.o.s"
QueryString(p, o, s) ==
    p \o <<".">> \o o \o (IF s = <<>> THEN <<>> ELSE <<".">> \o s)
RoundTripTargets ==
    { QueryString(p, o, s) :
        p \in PkgPaths, o \in QueryObjs, s \in QuerySels \cup { <<>> } }

InitParse ==
    /\ target \in RoundTripTargets
    /\ prog = <<>>
    /\ narg = 2
    /\ flagFullpath = TRUE /\ flagSimple = FALSE /\ hasLocalPkg = FALSE
    /\ s_filename = <<>> /\ s_ret = NotCalled
    /\ pc = "parse"
    /\ paths = <<>> /\ names = <<>>
    /\ pkgPath = <<>> /\ objName = <<>> /\ selName = <<>>
    /\ pkgI = 0 /\ stage = "none"
    /\ tasks = <<>>
    /\ wg = 0
    /\ c = [closed |-> FALSE]
    /\ coll = "none"
    /\ res = <<>>
    /\ node = NoNode
    /\ results = <<>> /\ ri = 0
    /\ fileLines = <<>> /\ reads = <<>> /\ output = <<>>
    /\ m_typ = TInt /\ m_sel = <<>> /\ m_ret = "none"

NextParse == Parse

SpecParse == InitParse /\ [][NextParse]_vars

\* The last path segment of package path p has no '.'.
DotFreeLast(p) ==
    LET ps == Split(p, "/") IN IndexOf(ps[Len(ps)], ".") = 0

\* C11: for every package path p, object name o and optional selector s, the
\* query "p.o" or "p.o.s" parses to pkgPath = p, objName = o, selName = s.
C11_RoundTrip ==
    pc # "parse" =>
        /\ pc = "range"
        /\ \A p \in PkgPaths, o \in QueryObjs, s \in QuerySels \cup { <<>> } :
             target = QueryString(p, o, s) =>
                 pkgPath = p /\ objName = o /\ selName = s

\* C11, amended: for every package path p whose last path segment has no '.',
\* object name o and optional selector s, the query "p.o" or "p.o.s" parses to
\* pkgPath = p, objName = o, selName = s.
C11_RoundTripDotFree ==
    pc # "parse" =>
        /\ pc = "range"
        /\ \A p \in PkgPaths, o \in QueryObjs, s \in QuerySels \cup { <<>> } :
             (DotFreeLast(p) /\ target = QueryString(p, o, s)) =>
                 pkgPath = p /\ objName = o /\ selName = s

\* A parsed query with a selector whose package path has two segments, the
\* first with a '.'.
C11_Witness ==
    /\ pc = "range"
    /\ selName # <<>>
    /\ \E o \in QueryObjs, s \in QuerySels :
         target = QueryString(<<"d", ".", "p", "/", "d">>, o, s)
    /\ pkgPath = <<"d", ".", "p", "/", "d">>

\* C12: no identifier that pi.Uses binds to a type name is ever sent by the
\* Use scanner, or reported, whatever the query, even when the type is the
\* queried one.
C12_NoTypeNameUse ==
    \A k \in 1..Len(prog) : \A e \in Pi(k).Uses :
        e.obj.kind = "TypeName" =>
            /\ tasks[<<k, "use">>].node # e.ident
            /\ \A j \in 1..Len(res) : res[j] # e.ident

\* A completed run with matches over a package that uses the name of the
\* queried type.
C12_Witness ==
    /\ pc = "exit"
    /\ Len(res) > 0
    /\ \E k \in 1..Len(prog) : \E e \in Pi(k).Uses :
         /\ Pi(k).Errors = 0
         /\ e.obj.kind = "TypeName"
         /\ selName = <<>> /\ IsTargetType(e.obj.type)

\* C13: with fewer than two arguments the process exits with code 2, and
\* before that nothing is parsed or loaded, no collector or scanner is started
\* and nothing is collected or printed.
C13_UsageExit ==
    narg < 2 =>
        /\ pc \in {"start", "exit2"}
        /\ paths = <<>> /\ names = <<>>
        /\ coll = "none" /\ wg = 0
        /\ \A t \in DOMAIN tasks : tasks[t].st = "none"
        /\ res = <<>> /\ results = <<>> /\ reads = <<>> /\ output = <<>>

\* The process has exited with code 2 on a query without package arguments.
C13_Witness ==
    /\ narg = 1
    /\ pc = "exit2"

(***************************************************************************)
(* simplifyFilename on its own: any flags, any filename.                   *)
(***************************************************************************)
FileNames ==
    UNION { [1..n -> {"/", "a", "b"}] : n \in 1..MaxName }

InitName ==
    /\ target = <<>>
    /\ prog = <<>>
    /\ narg = 2
    /\ flagFullpath \in BOOLEAN /\ flagSimple \in BOOLEAN
    /\ hasLocalPkg \in BOOLEAN
    /\ s_filename \in FileNames /\ s_ret = NotCalled
    /\ pc = "simplifyFilename"
    /\ paths = <<>> /\ names = <<>>
    /\ pkgPath = <<>> /\ objName = <<>> /\ selName = <<>>
    /\ pkgI = 0 /\ stage = "none"
    /\ tasks = <<>>
    /\ wg = 0
    /\ c = [closed |-> FALSE]
    /\ coll = "none"
    /\ res = <<>>
    /\ node = NoNode
    /\ results = <<>> /\ ri = 0
    /\ fileLines = <<>> /\ reads = <<>> /\ output = <<>>
    /\ m_typ = TInt /\ m_sel = <<>> /\ m_ret = "none"

\* One call of simplifyFilename(s_filename).
NameCall ==
    /\ ~s_ret.called
    /\ s_ret' = [called |-> TRUE, name |-> simplifyFilename(s_filename)]
    /\ UNCHANGED <<prog, pc, qvars, lvars, gvars, rvars, mvars, fvars, s_filename, node>>

NextName == NameCall

SpecName == InitName /\ [][NextName]_vars

\* b is the base name of the non-empty filename f: its last stretch without
\* '/', trailing '/' aside, or "/" when f is nothing but '/'.
IsBaseName(b, f) ==
    \/ b = <<"/">> /\ \A i \in 1..Len(f) : f[i] = "/"
    \/ \E i \in 1..Len(f) : \E j \in i..Len(f) :
         /\ b = SubSeq(f, i, j)
         /\ \A k \in i..j : f[k] # "/"
         /\ i = 1 \/ f[i - 1] = "/"
         /\ \A k \in (j + 1)..Len(f) : f[k] = "/"

\* C14: with -s the displayed filename is the base name of the file, and with
\* -p it is the file path unchanged, for every combination of the two flags.
C14_DisplayModes ==
    s_ret.called =>
        /\ flagSimple => IsBaseName(s_ret.name, s_filename)
        /\ flagFullpath => s_ret.name = s_filename

\* C14, amended: with -p the displayed filename is the file path unchanged,
\* and with -s and without -p it is the base name of the file.
C14_DisplayModesFullFirst ==
    s_ret.called =>
        /\ flagFullpath => s_ret.name = s_filename
        /\ (flagSimple /\ ~flagFullpath) => IsBaseName(s_ret.name, s_filename)

\* -s without -p gave the base name of a file in a directory.
C14_Witness ==
    /\ s_ret.called
    /\ flagSimple /\ ~flagFullpath
    /\ Len(s_ret.name) < Len(s_filename)
    /\ s_ret.name \notin { <<"/">>, <<".">> }

\* The map keys whose node scanner t has sent and the collector has received:
\* the sending keys it has been through, less the one whose node it holds.
SendingKeys(t) ==
    { k \in Keys(Pi(t[1]), t[2]) :
        Outcome(t[2], EntryAt(Pi(t[1]), t[2], k)).kind = "send" }
NodeSentFor(t, k) == Outcome(t[2], EntryAt(Pi(t[1]), t[2], k)).node
Delivered(t) ==
    CASE tasks[t].st = "none" -> {}
      [] tasks[t].st = "done" -> SendingKeys(t)
      [] tasks[t].st = "run" -> SendingKeys(t) \ tasks[t].todo
      [] tasks[t].st = "send" ->
            { k \in SendingKeys(t) \ tasks[t].todo :
                NodeSentFor(t, k) # tasks[t].node }
AllDelivered == UNION { { <<t, k>> : k \in Delivered(t) } : t \in DOMAIN tasks }

\* C15: the collected list holds each node as many times as the scanners have
\* sent it, neither less nor more, at every moment; and when main is past
\* <-done every scanner has finished, so that the list is a permutation of all
\* that all scanners sent.
C15_CollectorComplete ==
    /\ LET sent == AllDelivered IN
       \A n \in { res[j] : j \in 1..Len(res) }
                \cup { NodeSentFor(x[1], x[2]) : x \in sent } :
           Count(res, n)
             = Cardinality({ x \in sent : NodeSentFor(x[1], x[2]) = n })
    /\ Collected => \A t \in DOMAIN tasks : tasks[t].st \in {"none", "done"}

\* Main is just past <-done and the list holds a node twice, sent by two
\* scanners.
C15_Witness ==
    /\ pc = "sort"
    /\ \E i, j \in 1..Len(res) : i < j /\ res[i] = res[j]

\* C16: c is closed only when main has launched all it launches and every
\* launched scanner has finished, so that no scanner sends on the closed c; the
\* collector is past its loop only when c is closed and no scanner holds a
\* node to send; and main sorts, groups and prints only after <-done.
C16_BarrierOrder ==
    /\ c.closed =>
         /\ pc \notin {"start", "parse", "range", "wait", "close"}
         /\ wg = 0
         /\ \A t \in DOMAIN tasks : tasks[t].st \in {"none", "done"}
    /\ ~(pc = "panic" /\ c.closed /\ ri = 0)
    /\ coll \in {"done", "exit"} =>
         /\ c.closed
         /\ \A t \in DOMAIN tasks : tasks[t].st # "send"
    /\ (pc \in {"sort", "group", "print", "exit"} \/ ri > 0) => coll = "exit"

\* The collector has signalled the end of a collection from two packages and
\* main has yet to receive the signal.
C16_Witness ==
    /\ pc = "recvdone"
    /\ coll = "done"
    /\ Cardinality(Files(res)) = 2

(***************************************************************************)
(* Fair scheduling: a step that stays possible is eventually taken.  Every *)
(* goroutine that can run is eventually run by the Go scheduler.           *)
(***************************************************************************)
\* The queries of the fair runs: no argument at all, an empty selector, a
\* selector found in selections and literals, a selector found nowhere.
LiveTargets ==
    { <<>>,
      dp \o <<".", "F">>,
      dp \o <<".", "T", ".", "f">>,
      dp \o <<".", "F", ".", "f">> }
InitLive == Init /\ target \in LiveTargets

LiveSpec == InitLive /\ [][Next]_vars /\ WF_vars(Next)

\* Main is at the rendering with every scanner finished, c closed and the
\* collector's signal received.
RenderingReached ==
    /\ pc = "print"
    /\ \A t \in DOMAIN tasks : tasks[t].st \in {"none", "done"}
    /\ wg = 0
    /\ c.closed
    /\ coll = "exit"

\* C17: under fair scheduling, once the program is loaded every scanner
\* finishes, c is closed, the collector signals done and main reaches the
\* rendering; and in no state before the end of the process is every
\* goroutine blocked.
C17_Terminates ==
    /\ (pc = "range") ~> RenderingReached
    /\ [](Running => ENABLED Next)

\* The rendering is reached with nothing to render, after the scanners of two
\* packages have run.
C17_Witness ==
    /\ RenderingReached
    /\ results = <<>>
    /\ \E t \in DOMAIN tasks : tasks[t].st = "done" /\ t[1] = 2

\* The scanners launched for the k-th package.
Launched(k) == { plane \in Planes : tasks[<<k, plane>>].st # "none" }
\* The loop over the packages is past its k-th iteration.
LoopPast(k) ==
    \/ pc = "range" /\ pkgI > k
    \/ pc \in {"wait", "close", "recvdone", "sort", "group", "print", "exit"}
    \/ pc = "panic" /\ ri > 0

\* C18: once the loop is past a package without errors, the scanners launched
\* for it are the Selection, Use and Def scanners when selName is empty, and
\* these and the composite literal scanner when it is not; with an empty
\* selName no composite literal scanner ever exists.
C18_TaskCount ==
    \A k \in 1..Len(prog) :
        /\ (LoopPast(k) /\ Pi(k).Errors = 0) =>
              Launched(k) = IF selName = <<>> THEN {"sel", "use", "def"}
                            ELSE {"sel", "use", "def", "lit"}
        /\ selName = <<>> => tasks[<<k, "lit">>].st = "none"

\* The loop is over, with four scanners launched for each of two packages.
C18_Witness ==
    /\ pc = "wait"
    /\ selName # <<>>
    /\ Len(prog) = 2
    /\ \A k \in 1..Len(prog) : Cardinality(Launched(k)) = 4

\* The object of use e is the function or method objName of package pkgPath.
IsQueriedCallable(e) ==
    /\ e.obj.kind = "Func"
    /\ ~e.obj.pkg.nil /\ e.obj.pkg.path = pkgPath
    /\ e.obj.name = objName
\* The selections of the packages without errors that send node n.
SelectionsOf(n) ==
    UNION { { <<k, e>> : e \in { x \in MatchingSelections(Pi(k)) : x.expr.Sel = n } } :
            k \in { j \in 1..Len(prog) : Pi(j).Errors = 0 } }

\* C19: of the uses bound to a function or method, in a package without
\* errors, the Use scanner sends once each use of the function or method
\* objName of package pkgPath, whatever its type and whatever selName, and
\* sends any other only if its type is the target type and selName is empty:
\* once collected, the identifier is in the list that many times, besides
\* the times the Selection scanner sent it.
C19_CallableBypass ==
    Collected =>
        \A k \in 1..Len(prog) : \A e \in Pi(k).Uses :
            (Pi(k).Errors = 0 /\ e.obj.kind = "Func") =>
                Count(res, e.ident) =
                    (IF IsQueriedCallable(e) THEN 1
                     ELSE IF selName = <<>> /\ IsTargetType(e.obj.type) THEN 1
                     ELSE 0)
                    + Cardinality(SelectionsOf(e.ident))

\* A completed run with a non-empty selector that reported a use of the
\* queried callable once and did not report the use of another callable.
C19_Witness ==
    /\ pc = "exit"
    /\ selName # <<>>
    /\ \E k \in 1..Len(prog) : \E e, f \in Pi(k).Uses :
         /\ IsQueriedCallable(e) /\ Count(res, e.ident) = 1
         /\ f.obj.kind = "Func" /\ ~IsQueriedCallable(f)
         /\ Count(res, f.ident) = 0

\* The composite literals of package pi, with elements.
Literals(pi) ==
    { e \in pi.Types : e.expr.kind = "CompositeLit" /\ Len(e.expr.Elts) > 0 }
\* Those with keys, of a struct type that is the target type.
KeyedLiterals(pi) ==
    { e \in Literals(pi) :
        /\ e.expr.Elts[1].kind = "KeyValueExpr"
        /\ IsTargetType(e.tv.Type)
        /\ Underlying(e.tv.Type).kind = "Struct" }
\* The nodes of a literal that the scanner may send: its elements and keys.
PartsOf(e) ==
    { e.expr.Elts[i].node : i \in 1..Len(e.expr.Elts) }
    \cup { e.expr.Elts[i].Key.node :
             i \in { j \in 1..Len(e.expr.Elts) :
                       e.expr.Elts[j].kind = "KeyValueExpr" } }

\* C20: with a non-empty selName, once collected, of a keyed struct literal of
\* the target type in a package without errors the key named selName is in the
\* list once and no other key and no element is; and of the parts of any
\* literal, keyed or positional, at most one is in the list, once.
C20_KeyedLiterals ==
    (Collected /\ selName # <<>>) =>
        \A k \in { j \in 1..Len(prog) : Pi(j).Errors = 0 } :
            /\ \A e \in KeyedLiterals(Pi(k)) : \A i \in 1..Len(e.expr.Elts) :
                 /\ Count(res, e.expr.Elts[i].Key.node) =
                        IF e.expr.Elts[i].Key.Name = selName THEN 1 ELSE 0
                 /\ Count(res, e.expr.Elts[i].node) = 0
            /\ \A e \in Literals(Pi(k)) :
                 /\ \A n \in PartsOf(e) : Count(res, n) <= 1
                 /\ Cardinality({ n \in PartsOf(e) : Count(res, n) > 0 }) <= 1

\* A completed run that reported the second key of a keyed literal.
C20_Witness ==
    /\ pc = "exit"
    /\ \E k \in 1..Len(prog) : \E e \in KeyedLiterals(Pi(k)) :
         /\ e.expr.Elts[2].Key.Name = selName
         /\ Count(res, e.expr.Elts[2].Key.node) = 1

(***************************************************************************)
(* The pipeline on the queries with a selector, the second field g of T    *)
(* among the selectors.                                                    *)
(***************************************************************************)
LitTargets ==
    { <<>>,
      dp \o <<".", "T", ".", "f">>,
      dp \o <<".", "T", ".", "g">>,
      dp \o <<".", "T", ".", "T">>,
      dp \o <<".", "F", ".", "g">> }
InitLit ==
    /\ \/ narg = 0 /\ target = <<>> /\ prog = <<>>
       \/ narg = 1 /\ target \in LitTargets \ { <<>> } /\ prog = <<>>
       \/ target \in LitTargets \ { <<>> } /\ prog \in Programs
          /\ narg = Len(prog) + 1
    /\ flagFullpath = TRUE /\ flagSimple = FALSE /\ hasLocalPkg = FALSE
    /\ s_filename = <<>> /\ s_ret = NotCalled
    /\ pc = "start"
    /\ paths = <<>> /\ names = <<>>
    /\ pkgPath = <<>> /\ objName = <<>> /\ selName = <<>>
    /\ pkgI = 0 /\ stage = "none"
    /\ tasks = [t \in TaskIds(prog) |-> Idle]
    /\ wg = 0
    /\ c = [closed |-> FALSE]
    /\ coll = "none"
    /\ res = <<>>
    /\ node = NoNode
    /\ results = <<>> /\ ri = 0
    /\ fileLines = <<>> /\ reads = <<>> /\ output = <<>>
    /\ m_typ = TInt /\ m_sel = <<>> /\ m_ret = "none"

LitSpec == InitLit /\ [][Next]_vars

\* The positional literals of package pi, with elements.
PositionalLiterals(pi) ==
    { e \in Literals(pi) : e.expr.Elts[1].kind # "KeyValueExpr" }
\* Those whose static type is a struct type that is the target type, with as
\* many elements as the struct has fields.
FullyPositional(pi) ==
    { e \in PositionalLiterals(pi) :
        /\ IsTargetType(e.tv.Type)
        /\ Underlying(e.tv.Type).kind = "Struct"
        /\ Len(e.expr.Elts) = Len(Underlying(e.tv.Type).fields) }

\* C21: with a non-empty selName, once collected, of a positional literal of a
\* package without errors whose static type is a struct type that is the
\* target type and whose elements are as many as the struct's fields, the
\* element at the index of the field named selName is in the list once and no
\* other element is, and none is when no field has that name.
C21_PositionalLiterals ==
    (Collected /\ selName # <<>>) =>
        \A k \in { j \in 1..Len(prog) : Pi(j).Errors = 0 } :
            \A e \in FullyPositional(Pi(k)) : \A i \in 1..Len(e.expr.Elts) :
                Count(res, e.expr.Elts[i].node) =
                    IF Underlying(e.tv.Type).fields[i] = selName THEN 1 ELSE 0

\* A completed run that reported the second element of a positional literal
\* for the second field of the struct, and not the first element.
C21_Witness ==
    /\ pc = "exit"
    /\ \E k \in 1..Len(prog) : \E e \in FullyPositional(Pi(k)) :
         /\ Underlying(e.tv.Type).fields[2] = selName
         /\ Count(res, e.expr.Elts[2].node) = 1
         /\ Count(res, e.expr.Elts[1].node) = 0

\* C22: in every display record the spans are in left-to-right order and no
\* two of them overlap: of two consecutive spans the first ends where the
\* second starts, or before.
C22_SpansDisjoint ==
    Grouped =>
        \A a \in 1..Len(results) :
            \A u \in 1..(Len(results[a].highlights) - 1) :
                results[a].highlights[u].end <= results[a].highlights[u + 1].start

\* C23: no two entries of the collected list have the same filename and the
\* same byte offset: no node is in the list twice.
C23_NoTies ==
    \A i, j \in 1..Len(res) :
        (res[i].file = res[j].file /\ res[i].off = res[j].off) => i = j

\* Main is at a statement that reads or writes res.nodes: sort.Sort(res) or
\* the loop over res.nodes.
MainAccesses == pc \in {"sort", "group"}

\* C24: res.nodes is changed only by the collector's append, and by main's
\* sort after main has received the collector's signal; while main is at a
\* statement that accesses res.nodes the collector has returned, so that it
\* is never between its receive and its append then; and no step of a
\* scanner changes res.nodes.
C24_NoRace ==
    /\ [](MainAccesses => (coll = "exit" /\ node = NoNode))
    /\ [][res' # res =>
            \/ /\ coll = "append" /\ coll' = "range"
               /\ res' = Append(res, node)
               /\ ~MainAccesses
               /\ tasks' = tasks /\ pc' = pc
            \/ /\ pc = "sort" /\ pc' = "group"
               /\ coll = "exit" /\ coll' = "exit"
               /\ tasks' = tasks]_vars

\* Main is blocked in <-done while the collector holds a node it has received
\* and not yet appended, every scanner having finished.
C24_Witness ==
    /\ pc = "recvdone"
    /\ coll = "append"
    /\ node # NoNode
    /\ \A t \in DOMAIN tasks : tasks[t].st \in {"none", "done"}

\* C25: every display record has a line of its file, and each of its spans
\* lies in that line: 0 <= start <= end <= the length of the line.
C25_SpansWithinLine ==
    Grouped =>
        \A a \in 1..Len(results) :
            LET r == results[a]
                lines == FileLines(r.filename) IN
            /\ r.line \in 1..Len(lines)
            /\ \A u \in 1..Len(r.highlights) :
                 /\ 0 <= r.highlights[u].start
                 /\ r.highlights[u].start <= r.highlights[u].end
                 /\ r.highlights[u].end <= lines[r.line]

\* The records whose iteration of the printing loop has begun: those printed,
\* and the one at which the printing panicked.
Rendered ==
    { a \in 1..Len(results) : a < ri \/ (a = ri /\ pc = "panic") }

\* C26: no file is read twice; a file is read only for a record of it whose
\* printing has begun, and the file of every such record has been read, so
\* that at the end of the run the files read are, once each, the files of the
\* records; the cache holds the lines of the files read, in the order of the
\* reads; a read is made only for a record whose file the cache does not
\* hold; and an entry of the cache, once made, never changes.
C26_LineCache ==
    /\ [](/\ \A i, j \in 1..Len(reads) : reads[i] = reads[j] => i = j
          /\ { reads[i] : i \in 1..Len(reads) }
                = { results[a].filename : a \in Rendered }
          /\ pc = "exit" =>
                { reads[i] : i \in 1..Len(reads) }
                  = { results[a].filename : a \in 1..Len(results) }
          /\ Len(fileLines) = Len(reads)
          /\ \A k \in 1..Len(fileLines) :
                fileLines[k] = [filename |-> reads[k],
                                lines |-> FileLines(reads[k])])
    /\ [][/\ Len(fileLines') >= Len(fileLines)
          /\ \A k \in 1..Len(fileLines) : fileLines'[k] = fileLines[k]
          /\ reads' # reads =>
                /\ pc = "print" /\ ri <= Len(results)
                /\ ~IsCached(results[ri].filename)
                /\ reads' = Append(reads, results[ri].filename)]_vars

\* A completed run that printed records of two files, two of them of one
\* file, and read two files.
C26_Witness ==
    /\ pc = "exit"
    /\ Len(reads) = 2
    /\ \E a, b \in 1..Len(results) :
         a < b /\ results[a].filename = results[b].filename
    /\ Len(output) = Len(results)
=============================================================================
